---- MODULE Spec2Model ----
(***************************************************************************)
(* patchbay: the per-connection actor (readPump / writePump over the       *)
(* buffered channel c.send, with the read deadline and the ping ticker),   *)
(* the action dispatch of HandleAction, the crawl of Client.ArchiveUrl,    *)
(* the crawl with a completion callback (ArchiveUrl / ArchiveUrlSync), and *)
(* the hash-chained metadata ledger (NextMetadata / Metadata.Write).       *)
(***************************************************************************)
EXTENDS Integers, Sequences, FiniteSets, TLC

(***************************************************************************)
(* Bounds of the model.                                                    *)
(***************************************************************************)
\* capacity of the channel c.send (make(chan []byte, 256) in serveWs), scaled
SendCap == 2
\* inbound messages read by readPump in one behaviour
MaxReads == 2
\* outbound links a primary fetch may return
MaxLinks == 2
\* responses enqueued in one behaviour where the dispatch runs next to a crawl
MaxEnqueued == 4
\* the last second of the clock of the connection's deadlines
MaxClock == 120

(***************************************************************************)
(* Strings that the code inspects are sequences of characters.             *)
(***************************************************************************)
REQUEST == <<"R", "E", "Q", "U", "E", "S", "T">>

\* mutant of HasSuffix: strings.Contains instead of strings.HasSuffix
HasSuffixContains(s, suffix) ==
    \E i \in 1..(Len(s) - Len(suffix) + 1) :
        SubSeq(s, i, i + Len(suffix) - 1) = suffix

\* strings.HasSuffix(s, suffix)
HasSuffix(s, suffix) ==
    /\ Len(s) >= Len(suffix)
    /\ SubSeq(s, Len(s) - Len(suffix) + 1, Len(s)) = suffix

\* action type names used as inputs
TypeAReq  == <<"A", "_">> \o REQUEST
TypeBReq  == <<"B", "_">> \o REQUEST
TypeCReq  == <<"C", "_">> \o REQUEST
TypeReqs  == REQUEST \o <<"S">>
TypeLower == <<"a", "_", "r", "e", "q", "u", "e", "s", "t">>
TypeEmpty == << >>

Types == {TypeAReq, TypeBReq, TypeCReq, REQUEST, TypeReqs, TypeLower, TypeEmpty}

\* the registry: the type name each entry reports, in registry order.  Two
\* entries claim TypeAReq, and one entry claims a name without the suffix.
ClientReqActions == <<TypeAReq, TypeBReq, TypeAReq, TypeReqs>>

ReqIds == {"r1"}

\* an inbound message that json.Unmarshal rejects
Malformed == [Type |-> <<"?">>, RequestId |-> "", SilentError |-> FALSE, ok |-> FALSE]

Envelopes == [Type : Types, RequestId : ReqIds, SilentError : BOOLEAN, ok : {TRUE}]

InMsgs == Envelopes \cup {Malformed}

NoMsg == [Type |-> << >>, RequestId |-> "", SilentError |-> FALSE, ok |-> FALSE]

(***************************************************************************)
(* ClientResponse values.  from: registry index of the handler that built  *)
(* it (0: built by the core); link: index of the link an URL_SET_* event   *)
(* is about (0: none); marshals: whether json.Marshal accepts it.          *)
(***************************************************************************)
Response(type, reqId, silent, from, link, marshals) ==
    [Type |-> type, RequestId |-> reqId, SilentError |-> silent,
     from |-> from, link |-> link, marshals |-> marshals]

None == Response("", "", FALSE, 0, 0, FALSE)

Producers == {"readPump", "ArchiveUrl", "links"}

VARIABLES
    send,        \* c.send: the buffered channel's content
    sendClosed,  \* the hub closed c.send
    connClosed,  \* c.conn.Close() has been called
    registered,  \* the client is in the hub's set
    unregPending,\* readPump's value on hub.unregister, not yet handled
    panicked,    \* a goroutine panicked (send on a closed channel)
    pending,     \* per producer: the response its SendResponse is delivering
    rpPc,        \* readPump: "init", "no client", "read", "dispatch", "closing", "done"
    rpMsg,       \* readPump: the message HandleAction is working on
    rpIdx,       \* HandleRequestAction: next registry index to look at
    reads,       \* number of messages read so far
    wpPc,        \* writePump: "init", "no client", "run", "done"
    pinged,      \* writePump has written a ping
    closeFrames, \* number of close frames written so far
    \* history of the connection
    enqueued,    \* every response put on c.send, in order
    written,     \* every payload written to the connection, in order
    execLog,     \* every handler execution: <<read number, registry index>>
    malformed,   \* number of messages read that json.Unmarshal rejected
    rpBase,      \* Len(enqueued) when the message HandleAction works on was read
    dropped,     \* responses SendResponse gave up on (json.Marshal failed)
    connReaders, \* the tasks that have read the connection
    connWriters, \* the tasks that have written a frame to the connection
    \* Client.ArchiveUrl
    arPc,        \* "idle", "get", "spawn", "Rejected", "Failed", "Returned"
    arReqId,     \* reqId of the call
    arUrl,       \* url of the call
    nLinks,      \* len(links) returned by the primary fetch
    lkPc,        \* link goroutine: "off", "loop", "fetch", "success", "Completed"
    lkIdx,       \* link goroutine: index of the link being processed
    auditRows,   \* rows inserted into archive_requests
    storeOps,    \* every call on the content store, in order
    \* the metadata ledger
    rows,        \* the metadata table, in insertion order
    now,         \* the wall clock, in half seconds
    zone,        \* the offset of the process's local time zone, in seconds
    wPc,         \* per writer: "idle", "built"
    wArgs,       \* per writer: <<keyId, subject>> of its last NextMetadata call
    wRec,        \* per writer: the Metadata it got from NextMetadata and holds
    wErr,        \* per writer: the error its last call returned ("" for nil)
    titleJobs,   \* the title goroutines started and not yet run
    titles,      \* Url.Title per subject
    \* the deadlines of the connection
    clock,       \* the time, in seconds
    readDeadline,\* the deadline c.conn.SetReadDeadline set last
    nextPing,    \* the time of the ticker's next tick
    lastHeard,   \* when readPump last received a data message or a pong
    pingAt,      \* when the first ping since the last pong received was written
    timedOutAt,  \* when a read of readPump failed at the read deadline
    \* ArchiveUrl with a completion callback, and ArchiveUrlSync
    bPc,         \* the caller: "idle", "get", "callback", "Returned", "recv", "SyncReturned"
    bSync,       \* the call is ArchiveUrlSync's: the callback sends on the channel done
    bUrl,        \* url of the call
    bErr,        \* the error returned to the caller ("" for nil)
    bTasks,      \* tasks, len(links)
    errs,        \* the buffered channel errs
    blPc,        \* the goroutine that fetches the links: "off", "loop", "done"
    blIdx,       \* the index of the link it fetches next
    bFetches,    \* whether each link's fetch succeeded, in order
    agPc,        \* the goroutine that drains errs: "off", "loop", "callback", "done"
    agI,         \* its loop variable i: the completions drained
    agErr,       \* the error it calls done with
    doneCalls    \* every invocation of the callback done, in order

chanVars == <<send, enqueued, pending, dropped, panicked>>
hubVars  == <<sendClosed, registered, unregPending>>
rpVars   == <<rpPc, rpMsg, rpIdx, reads, execLog, malformed, rpBase, connReaders>>
wpVars   == <<wpPc, pinged, closeFrames, written>>
connVars == <<chanVars, hubVars, rpVars, wpVars, connClosed, connWriters>>

arVars   == <<arPc, arReqId, arUrl, nLinks>>
lkVars   == <<lkPc, lkIdx>>
crawlVars == <<arVars, lkVars, auditRows, storeOps>>

wVars    == <<wPc, wArgs, wRec, wErr>>
ledgerVars == <<rows, now, zone, wVars, titleJobs, titles>>

timeVars == <<clock, readDeadline, nextPing, lastHeard, pingAt, timedOutAt>>

batchVars == <<bPc, bSync, bUrl, bErr, bTasks, errs, blPc, blIdx, bFetches, agPc, agI, agErr,
               doneCalls>>

vars == <<connVars, crawlVars, ledgerVars, timeVars, batchVars>>

(***************************************************************************)
(* SendResponse (part_000:168-181).  The call is split where it can block: *)
(* SendResponseBegin marshals (and gives up when that fails),              *)
(* SendResponse is the channel send c.send <- data.                        *)
(***************************************************************************)
\* what SendResponse is left to deliver after json.Marshal
Marshal(res) == IF res.marshals THEN res ELSE None

SendResponseBegin(p, res) ==
    /\ pending' = [pending EXCEPT ![p] = Marshal(res)]
    /\ dropped' = IF res.marshals THEN dropped ELSE Append(dropped, res)
    /\ UNCHANGED <<send, enqueued, panicked>>

\* mutant of ChanSend: the new element jumps the queue
ChanSendLifo(ch, data) == <<data>> \o ch

\* the channel's buffer after c.send <- data
ChanSend(ch, data) == Append(ch, data)

\* mutant of SendWriters: SendResponse writes the frame itself (c.conn.WriteJSON)
SendWritersDirect(p) == {p}

\* the tasks that write the connection during SendResponse: none, it only enqueues
SendWriters(p) == {}

\* mutant of ChanFull: the channel takes any number of elements
ChanFullNever(ch) == FALSE

\* the buffer of make(chan []byte, 256) has no room: a send blocks
ChanFull(ch) == Len(ch) >= SendCap

SendResponse(p) ==
    /\ ~panicked
    /\ pending[p] # None
    /\ IF sendClosed
       THEN /\ panicked' = TRUE
            /\ UNCHANGED <<send, pending, enqueued, connWriters>>
       ELSE /\ ~ChanFull(send)
            /\ LET item == [data |-> pending[p], n |-> Len(enqueued) + 1, by |-> p] IN
               /\ send' = ChanSend(send, item)
               /\ enqueued' = Append(enqueued, item)
            /\ pending' = [pending EXCEPT ![p] = None]
            /\ connWriters' = connWriters \cup SendWriters(p)
            /\ UNCHANGED panicked
    /\ UNCHANGED <<dropped, hubVars, rpVars, wpVars, connClosed, crawlVars, ledgerVars, timeVars, batchVars>>

(***************************************************************************)
(* The deadlines (part_000:16-29), in seconds                              *)
(***************************************************************************)
writeWait == 10

pongWait == 60

\* mutant of pingPeriod: eleven tenths of pongWait
pingPeriodLate == (pongWait * 11) \div 10

pingPeriod == (pongWait * 9) \div 10

\* no time: nothing of the kind has happened yet
Never == -1

(***************************************************************************)
(* serveWs (part_000:194-204); writePump starts its ticker (part_000:89)   *)
(* and readPump sets the first read deadline (part_000:61)                 *)
(***************************************************************************)
serveWs ==
    /\ rpPc = "init"
    /\ \E upgraded \in BOOLEAN :
         IF upgraded
         THEN /\ registered' = TRUE
              /\ wpPc' = "run"
              /\ rpPc' = "read"
              /\ nextPing' = clock + pingPeriod
              /\ readDeadline' = clock + pongWait
              /\ lastHeard' = clock
         ELSE /\ rpPc' = "no client"
              /\ wpPc' = "no client"
              /\ UNCHANGED <<registered, nextPing, readDeadline, lastHeard>>
    /\ UNCHANGED <<ledgerVars, clock, pingAt, timedOutAt, batchVars, crawlVars, chanVars, sendClosed, unregPending, rpMsg, rpIdx, reads,
                   execLog, malformed, rpBase,
                   connReaders, pinged, closeFrames, written, connClosed, connWriters>>

(***************************************************************************)
(* readPump (part_000:55-81) and HandleAction (part_000:130-166)           *)
(***************************************************************************)
ParseError == Response("PARSE_ERROR", "", FALSE, 0, 0, TRUE)

\* mutant of HandleAction: a message that does not parse is only logged
HandleActionSilent(msg) ==
    IF msg.ok /\ HasSuffix(msg.Type, REQUEST)
    THEN /\ rpPc' = "dispatch"
         /\ rpIdx' = 1
         /\ UNCHANGED chanVars
    ELSE UNCHANGED <<rpPc, rpIdx, chanVars>>

\* HandleAction(data), up to the first point where it can block
HandleAction(msg) ==
    IF ~msg.ok
    THEN /\ SendResponseBegin("readPump", ParseError)
         /\ UNCHANGED <<rpPc, rpIdx>>
    ELSE IF HasSuffix(msg.Type, REQUEST)
    THEN /\ rpPc' = "dispatch"
         /\ rpIdx' = 1
         /\ UNCHANGED chanVars
    ELSE UNCHANGED <<rpPc, rpIdx, chanVars>>

\* one successful c.conn.ReadMessage() followed by c.HandleAction(message),
\* the message drawn from msgs, at most maxReads times
readPumpOn(msgs, maxReads) ==
    /\ ~panicked
    /\ rpPc = "read"
    /\ pending["readPump"] = None
    /\ ~connClosed
    /\ clock < readDeadline
    /\ reads < maxReads
    /\ \E msg \in msgs :
         /\ rpMsg' = msg
         /\ malformed' = IF msg.ok THEN malformed ELSE malformed + 1
         /\ HandleAction(msg)
    /\ rpBase' = Len(enqueued)
    /\ reads' = reads + 1
    /\ lastHeard' = clock
    /\ connReaders' = connReaders \cup {"readPump"}
    /\ UNCHANGED <<ledgerVars, clock, readDeadline, nextPing, pingAt, timedOutAt, batchVars, crawlVars, execLog, hubVars, wpVars, connClosed, connWriters>>

readPump == readPumpOn(InMsgs, MaxReads)

\* ReadMessage fails: close the connection and leave the loop
readPumpError ==
    /\ ~panicked
    /\ rpPc = "read"
    /\ pending["readPump"] = None
    /\ rpPc' = "closing"
    /\ connClosed' = TRUE
    /\ connReaders' = connReaders \cup {"readPump"}
    /\ UNCHANGED <<ledgerVars, timeVars, batchVars, crawlVars, chanVars, hubVars, rpMsg, rpIdx, reads, execLog,
                   malformed, rpBase, wpVars, connWriters>>

\* ReadMessage fails because the read deadline has passed
readPumpTimeout ==
    /\ ~panicked
    /\ rpPc = "read"
    /\ pending["readPump"] = None
    /\ ~connClosed
    /\ clock >= readDeadline
    /\ rpPc' = "closing"
    /\ connClosed' = TRUE
    /\ timedOutAt' = clock
    /\ connReaders' = connReaders \cup {"readPump"}
    /\ UNCHANGED <<ledgerVars, clock, readDeadline, nextPing, lastHeard, pingAt, batchVars,
                   crawlVars, chanVars, hubVars, rpMsg, rpIdx, reads, execLog, malformed,
                   rpBase, wpVars, connWriters>>

\* ReadMessage receives a pong: the pong handler moves the read deadline
\* (part_000:62) and ReadMessage goes on waiting
readPumpPong ==
    /\ ~panicked
    /\ rpPc = "read"
    /\ pending["readPump"] = None
    /\ ~connClosed
    /\ clock < readDeadline
    /\ readDeadline' = clock + pongWait
    /\ lastHeard' = clock
    /\ pingAt' = Never
    /\ connReaders' = connReaders \cup {"readPump"}
    /\ UNCHANGED <<ledgerVars, clock, nextPing, timedOutAt, batchVars, crawlVars, chanVars,
                   hubVars, rpPc, rpMsg, rpIdx, reads, execLog, malformed, rpBase, wpVars,
                   connClosed, connWriters>>

\* the deferred function: c.hub.unregister <- c; c.conn.Close()
readPumpDefer ==
    /\ ~panicked
    /\ rpPc = "closing"
    /\ rpPc' = "done"
    /\ unregPending' = TRUE
    /\ connClosed' = TRUE
    /\ UNCHANGED <<ledgerVars, timeVars, batchVars, crawlVars, chanVars, sendClosed, registered, rpMsg, rpIdx, reads,
                   execLog, malformed, rpBase,
                   connReaders, wpVars, connWriters>>

(***************************************************************************)
(* HandleRequestAction (part_000:183-191): one iteration that matches, or  *)
(* the end of the loop.                                                    *)
(***************************************************************************)
Matching(from, req) == {i \in from..Len(ClientReqActions) : ClientReqActions[i] = req}

Min(S) == CHOOSE x \in S : \A y \in S : x <= y

\* res.SilentError = silentError
ExecResponse(res, silentError) == [res EXCEPT !.SilentError = silentError]

HandleRequestAction ==
    /\ ~panicked
    /\ rpPc = "dispatch"
    /\ pending["readPump"] = None
    /\ LET m == Matching(rpIdx, rpMsg.Type) IN
       IF m = {}
       THEN /\ rpPc' = "read"
            /\ rpIdx' = 0
            /\ UNCHANGED <<execLog, chanVars>>
       ELSE LET i == Min(m) IN
            \E handlerSilent \in BOOLEAN, marshals \in BOOLEAN :
              LET res == Response("RESPONSE", rpMsg.RequestId, handlerSilent, i, 0, marshals) IN
              /\ execLog' = Append(execLog, <<reads, i>>)
              /\ SendResponseBegin("readPump", ExecResponse(res, rpMsg.SilentError))
              /\ rpIdx' = i + 1
              /\ UNCHANGED rpPc
    /\ UNCHANGED <<ledgerVars, timeVars, batchVars, crawlVars, rpMsg, reads, malformed, rpBase, connReaders, hubVars,
                   wpVars, connClosed, connWriters>>

(***************************************************************************)
(* The hub's handling of unregister: the client leaves the set and its     *)
(* send channel is closed.                                                 *)
(***************************************************************************)
HubUnregister ==
    /\ ~panicked
    /\ unregPending
    /\ unregPending' = FALSE
    /\ registered' = FALSE
    /\ sendClosed' = TRUE
    /\ UNCHANGED <<ledgerVars, timeVars, batchVars, crawlVars, chanVars, rpVars, wpVars, connClosed, connWriters>>

(***************************************************************************)
(* writePump (part_000:88-128)                                             *)
(***************************************************************************)
\* the channel's buffer after message := <-c.send
ChanRecv(ch) == Tail(ch)

\* case message, ok := <-c.send with ok: write one text message
writePumpMessage ==
    /\ ~panicked
    /\ wpPc = "run"
    /\ Len(send) > 0
    /\ send' = ChanRecv(send)
    /\ connWriters' = connWriters \cup {"writePump"}
    /\ \E wrote \in BOOLEAN :
         /\ wrote => ~connClosed
         /\ IF wrote
            THEN /\ written' = Append(written, Head(send))
                 /\ UNCHANGED <<wpPc, connClosed>>
            ELSE /\ wpPc' = "done"
                 /\ connClosed' = TRUE
                 /\ UNCHANGED written
    /\ UNCHANGED <<ledgerVars, timeVars, batchVars, crawlVars, enqueued, pending, dropped, panicked, hubVars, rpVars,
                   pinged, closeFrames>>

\* case message, ok := <-c.send with !ok: the hub closed the channel
writePumpClosed ==
    /\ ~panicked
    /\ wpPc = "run"
    /\ Len(send) = 0
    /\ sendClosed
    /\ connWriters' = connWriters \cup {"writePump"}
    /\ \E wrote \in BOOLEAN :
         /\ wrote => ~connClosed
         /\ closeFrames' = IF wrote THEN closeFrames + 1 ELSE closeFrames
    /\ wpPc' = "done"
    /\ connClosed' = TRUE
    /\ UNCHANGED <<ledgerVars, timeVars, batchVars, crawlVars, chanVars, hubVars, rpVars, pinged, written>>

\* case <-ticker.C: write a ping; ticked: the ticker has sent its tick
writePumpPingAt(ticked) ==
    /\ ~panicked
    /\ wpPc = "run"
    /\ ticked
    /\ nextPing' = IF clock >= nextPing THEN nextPing + pingPeriod ELSE nextPing
    /\ connWriters' = connWriters \cup {"writePump"}
    /\ \E wrote \in BOOLEAN :
         /\ wrote => ~connClosed
         /\ IF wrote
            THEN /\ pinged' = TRUE
                 /\ pingAt' = IF pingAt = Never THEN clock ELSE pingAt
                 /\ UNCHANGED <<wpPc, connClosed>>
            ELSE /\ wpPc' = "done"
                 /\ connClosed' = TRUE
                 /\ UNCHANGED <<pinged, pingAt>>
    /\ UNCHANGED <<ledgerVars, clock, readDeadline, lastHeard, timedOutAt, batchVars, crawlVars, chanVars, hubVars, rpVars, written, closeFrames>>

\* the tick may have been sent at any time
writePumpPing == writePumpPingAt(TRUE)

\* the ticker's tick is sent when its time has come
writePumpTick == writePumpPingAt(clock >= nextPing)

\* the step of the clock: the time between a ping and the deadline it precedes
Quantum == pongWait - pingPeriod

\* time passes, unless a deadline that has come is still to be acted on
Elapse ==
    /\ clock + Quantum <= MaxClock
    /\ ~(rpPc = "read" /\ pending["readPump"] = None /\ ~connClosed /\ clock >= readDeadline)
    /\ ~(wpPc = "run" /\ clock >= nextPing)
    /\ clock' = clock + Quantum
    /\ UNCHANGED <<readDeadline, nextPing, lastHeard, pingAt, timedOutAt, connVars, crawlVars,
                   ledgerVars, batchVars>>

InitTime ==
    /\ clock = 0
    /\ readDeadline = 0
    /\ nextPing = 0
    /\ lastHeard = 0
    /\ pingAt = Never
    /\ timedOutAt = Never

(***************************************************************************)
(* ValidArchivingUrl (part_001:13-23): the query                            *)
(*   select exists(select 1 from subprimers where $1 ilike '%'||url||'%')  *)
(***************************************************************************)
LowerCase == [c \in {"E", "X", "V"} |-> CASE c = "E" -> "e" [] c = "X" -> "x" [] c = "V" -> "v"]

ToLower(s) == [i \in 1..Len(s) |-> IF s[i] \in DOMAIN LowerCase THEN LowerCase[s[i]] ELSE s[i]]

Contains(s, sub) ==
    \E i \in 1..(Len(s) - Len(sub) + 1) : SubSeq(s, i, i + Len(sub) - 1) = sub

\* $1 ilike concat('%', pattern, '%')
ILike(url, pattern) == Contains(ToLower(url), ToLower(pattern))

\* the url column of the subprimers table
Subprimers == {<<"e", "x">>}

UrlExample == <<"h", "/", "e", "x", "/", "p">>
UrlUpper   == <<"h", "/", "E", "X">>
UrlEvil    == <<"h", "/", "e", "v", "/", "x">>

Urls == {UrlExample, UrlUpper, UrlEvil}

SubprimerExists(url) == \E pat \in Subprimers : ILike(url, pat)

\* mutant of ValidArchivingUrl: the scanned "exists" is not looked at
ValidArchivingUrlAnyRow(url, queryOk) == IF ~queryOk THEN "query error" ELSE "ok"

\* "ok", or the kind of error returned
ValidArchivingUrl(url, queryOk) ==
    IF ~queryOk THEN "query error"
    ELSE IF ~SubprimerExists(url) THEN "not in subprimers"
    ELSE "ok"

(***************************************************************************)
(* Client.ArchiveUrl (part_001:25-149)                                     *)
(***************************************************************************)
ArchiveError(reqId) == Response("URL_ARCHIVE_ERROR", reqId, FALSE, 0, 0, TRUE)
ArchiveSuccess(reqId) == Response("URL_ARCHIVE_SUCCESS", reqId, FALSE, 0, 0, TRUE)
LinkArray == Response("LINK_ARRAY", "server", FALSE, 0, 0, TRUE)
SetEvent(type, link) == Response(type, "server", FALSE, 0, link, TRUE)

StoreOp(op, link, ok) == [op |-> op, link |-> link, ok |-> ok]

ReadResults == {"ok", "not found", "error"}

\* the call up to its first response: policy check, audit row, url parse,
\* entity read / save (part_001:26-88)
ArchiveUrlOn(urls) ==
    /\ ~panicked
    /\ arPc = "idle"
    /\ wpPc \notin {"init", "no client"}
    /\ \E reqId \in ReqIds, url \in urls, queryOk \in BOOLEAN, insertOk \in BOOLEAN,
          parseOk \in BOOLEAN, readRes \in ReadResults, saveOk \in BOOLEAN :
         /\ arReqId' = reqId
         /\ arUrl' = url
         /\ IF ValidArchivingUrl(url, queryOk) # "ok"
            THEN /\ arPc' = "Rejected"
                 /\ SendResponseBegin("ArchiveUrl", ArchiveError(reqId))
                 /\ UNCHANGED <<auditRows, storeOps>>
            ELSE IF ~insertOk
            THEN /\ arPc' = "Failed"
                 /\ SendResponseBegin("ArchiveUrl", ArchiveError(reqId))
                 /\ UNCHANGED <<auditRows, storeOps>>
            ELSE IF ~parseOk
            THEN /\ arPc' = "Failed"
                 /\ auditRows' = auditRows + 1
                 /\ SendResponseBegin("ArchiveUrl", ArchiveError(reqId))
                 /\ UNCHANGED storeOps
            ELSE /\ auditRows' = auditRows + 1
                 /\ storeOps' = storeOps
                       \o <<StoreOp("read", 0, readRes = "ok")>>
                       \o (IF readRes = "not found"
                           THEN <<StoreOp("save", 0, saveOk)>> ELSE << >>)
                 /\ IF readRes = "error" \/ (readRes = "not found" /\ ~saveOk)
                    THEN /\ arPc' = "Failed"
                         /\ SendResponseBegin("ArchiveUrl", ArchiveError(reqId))
                    ELSE /\ arPc' = "get"
                         /\ SendResponseBegin("ArchiveUrl", ArchiveSuccess(reqId))
    /\ UNCHANGED <<ledgerVars, timeVars, batchVars, nLinks, lkVars, hubVars, rpVars, wpVars, connClosed, connWriters>>

ArchiveUrl == ArchiveUrlOn(Urls)

\* the primary fetch u.Get(store) and the response after it (part_001:90-108)
ArchiveUrlGetOn(maxLinks) ==
    /\ ~panicked
    /\ arPc = "get"
    /\ pending["ArchiveUrl"] = None
    /\ \E fetched \in BOOLEAN, n \in 0..maxLinks :
         /\ storeOps' = Append(storeOps, StoreOp("get", 0, fetched))
         /\ IF fetched
            THEN /\ nLinks' = n
                 /\ arPc' = "spawn"
                 /\ SendResponseBegin("ArchiveUrl", LinkArray)
            ELSE /\ arPc' = "Failed"
                 /\ SendResponseBegin("ArchiveUrl", ArchiveError(arReqId))
                 /\ UNCHANGED nLinks
    /\ UNCHANGED <<ledgerVars, timeVars, batchVars, arReqId, arUrl, lkVars, auditRows, hubVars, rpVars, wpVars,
                   connClosed, connWriters>>

ArchiveUrlGet == ArchiveUrlGetOn(MaxLinks)

\* go func(db, links) {...}(db, links), and the return (part_001:110, 148-149)
ArchiveUrlSpawn ==
    /\ ~panicked
    /\ arPc = "spawn"
    /\ pending["ArchiveUrl"] = None
    /\ arPc' = "Returned"
    /\ lkPc' = "loop"
    /\ lkIdx' = 1
    /\ UNCHANGED <<ledgerVars, timeVars, batchVars, arReqId, arUrl, nLinks, auditRows, storeOps, connVars>>

\* the events sent after l.Dst.Get(store), in order (part_001:127-146)
AfterFetch(fetched) ==
    IF fetched THEN <<"URL_SET_SUCCESS">> ELSE <<"URL_SET_ERROR", "URL_SET_SUCCESS">>

\* mutant of RangeDone: the body runs once before the range is looked at
RangeDoneAfterFirst(idx, n) == idx > n /\ idx > 1

\* for _, l := range links (part_001:112): no element is left at index idx of n
RangeDone(idx, n) == idx > n

\* for _, l := range links: the sleep and the loading event, or the end of the loop
LinkLoading ==
    /\ ~panicked
    /\ lkPc = "loop"
    /\ pending["links"] = None
    /\ IF RangeDone(lkIdx, nLinks)
       THEN /\ lkPc' = "Completed"
            /\ UNCHANGED chanVars
       ELSE /\ lkPc' = "fetch"
            /\ SendResponseBegin("links", SetEvent("URL_SET_LOADING", lkIdx))
    /\ UNCHANGED <<ledgerVars, timeVars, batchVars, lkIdx, arVars, auditRows, storeOps, hubVars, rpVars, wpVars,
                   connClosed, connWriters>>

\* mutant of LinkFetch: the goroutine returns after a fetch that failed
LinkFetchAbortOnError ==
    /\ ~panicked
    /\ lkPc = "fetch"
    /\ pending["links"] = None
    /\ \E fetched \in BOOLEAN :
         /\ storeOps' = Append(storeOps, StoreOp("get", lkIdx, fetched))
         /\ SendResponseBegin("links", SetEvent(AfterFetch(fetched)[1], lkIdx))
         /\ IF fetched
            THEN lkPc' = "loop" /\ lkIdx' = lkIdx + 1
            ELSE lkPc' = "Completed" /\ UNCHANGED lkIdx
    /\ UNCHANGED <<ledgerVars, timeVars, batchVars, arVars, auditRows, hubVars, rpVars, wpVars,
                   connClosed, connWriters>>

\* l.Dst.Get(store) and the first event after it
LinkFetch ==
    /\ ~panicked
    /\ lkPc = "fetch"
    /\ pending["links"] = None
    /\ \E fetched \in BOOLEAN :
         LET events == AfterFetch(fetched) IN
         /\ storeOps' = Append(storeOps, StoreOp("get", lkIdx, fetched))
         /\ SendResponseBegin("links", SetEvent(events[1], lkIdx))
         /\ IF Len(events) > 1
            THEN lkPc' = "success" /\ UNCHANGED lkIdx
            ELSE lkPc' = "loop" /\ lkIdx' = lkIdx + 1
    /\ UNCHANGED <<ledgerVars, timeVars, batchVars, arVars, auditRows, hubVars, rpVars, wpVars, connClosed, connWriters>>

\* the URL_SET_SUCCESS event that follows an URL_SET_ERROR event
LinkSuccess ==
    /\ ~panicked
    /\ lkPc = "success"
    /\ pending["links"] = None
    /\ SendResponseBegin("links", SetEvent(AfterFetch(FALSE)[2], lkIdx))
    /\ lkPc' = "loop"
    /\ lkIdx' = lkIdx + 1
    /\ UNCHANGED <<ledgerVars, timeVars, batchVars, arVars, auditRows, storeOps, hubVars, rpVars, wpVars,
                   connClosed, connWriters>>

InitCrawl ==
    /\ arPc = "idle"
    /\ arReqId = ""
    /\ arUrl = << >>
    /\ nLinks = 0
    /\ lkPc = "off"
    /\ lkIdx = 0
    /\ auditRows = 0
    /\ storeOps = << >>

(***************************************************************************)
(* ArchiveUrl with a completion callback (part_001:152-207) and            *)
(* ArchiveUrlSync (part_001:209-220).  The callback of a direct caller     *)
(* returns; the callback of ArchiveUrlSync is done <- err on an unbuffered *)
(* channel, which completes when the caller is at its receive <-done.      *)
(***************************************************************************)
\* an invocation of done(err), by the caller's goroutine or the aggregator
DoneCall(who, err) == [by |-> who, err |-> err, drained |-> agI]

\* a receiver is waiting on the channel done (part_001:218)
DoneReceiverReady == bPc = "recv"

\* the call up to the primary fetch: url parse, entity read / save (153-169)
ArchiveUrlBatch ==
    /\ bPc = "idle"
    /\ \E sync \in BOOLEAN, url \in Urls, parseOk \in BOOLEAN, readRes \in ReadResults,
          saveOk \in BOOLEAN :
         LET err == IF ~parseOk THEN "parse"
                    ELSE IF readRes = "error" THEN "read"
                    ELSE IF readRes = "not found" /\ ~saveOk THEN "save"
                    ELSE ""
         IN  /\ bSync' = sync
             /\ bUrl' = url
             /\ bErr' = err
             /\ IF err # ""
                THEN /\ doneCalls' = Append(doneCalls, DoneCall("caller", err))
                     /\ bPc' = "callback"
                ELSE /\ bPc' = "get"
                     /\ UNCHANGED doneCalls
    /\ UNCHANGED <<bTasks, errs, blPc, blIdx, bFetches, agPc, agI, agErr, connVars, crawlVars,
                   ledgerVars, timeVars>>

\* u.Get(store), and on success the two goroutines and the return (171-206)
ArchiveUrlBatchGet ==
    /\ bPc = "get"
    /\ \E fetched \in BOOLEAN, n \in 0..MaxLinks :
         IF ~fetched
         THEN /\ bErr' = "get"
              /\ doneCalls' = Append(doneCalls, DoneCall("caller", "get"))
              /\ bPc' = "callback"
              /\ UNCHANGED <<bTasks, blPc, blIdx, agPc>>
         ELSE /\ bTasks' = n
              /\ blPc' = IF n = 0 THEN "done" ELSE "loop"
              /\ blIdx' = 1
              /\ agPc' = "loop"
              /\ bPc' = IF bSync THEN "recv" ELSE "Returned"
              /\ UNCHANGED <<bErr, doneCalls>>
    /\ UNCHANGED <<bSync, bUrl, errs, bFetches, agI, agErr, connVars, crawlVars, ledgerVars, timeVars>>

\* done(err) called on the caller's goroutine returns, and ArchiveUrl
\* returns err (155-156, 162-163, 166-167, 174-175, 214-215)
CallbackReturn ==
    /\ bPc = "callback"
    /\ bSync => DoneReceiverReady
    /\ bPc' = IF bSync THEN "SyncReturned" ELSE "Returned"
    /\ UNCHANGED <<bSync, bUrl, bErr, bTasks, errs, blPc, blIdx, bFetches, agPc, agI, agErr, doneCalls,
                   connVars, crawlVars, ledgerVars, timeVars>>

\* mutant of Completion: the error of the fetch is passed on
CompletionErr(fetched) == IF fetched THEN "" ELSE "get"

\* the value sent on errs after a link's fetch: errs <- nil (part_001:187)
Completion(fetched) == ""

\* one iteration of the goroutine over the links (183-192)
BatchLinkFetch ==
    /\ blPc = "loop"
    /\ Len(errs) < bTasks
    /\ \E fetched \in BOOLEAN :
         /\ bFetches' = Append(bFetches, fetched)
         /\ errs' = Append(errs, Completion(fetched))
    /\ blIdx' = blIdx + 1
    /\ blPc' = IF blIdx + 1 > bTasks THEN "done" ELSE "loop"
    /\ UNCHANGED <<bPc, bSync, bUrl, bErr, bTasks, agPc, agI, agErr, doneCalls, connVars, crawlVars,
                   ledgerVars, timeVars>>

\* one iteration of the aggregator: err := <-errs (196-202)
AggregatorRecv ==
    /\ agPc = "loop"
    /\ agI < bTasks
    /\ Len(errs) > 0
    /\ errs' = Tail(errs)
    /\ IF Head(errs) # ""
       THEN /\ doneCalls' = Append(doneCalls, DoneCall("aggregator", Head(errs)))
            /\ agErr' = Head(errs)
            /\ agPc' = "callback"
            /\ UNCHANGED agI
       ELSE /\ agI' = agI + 1
            /\ UNCHANGED <<doneCalls, agErr, agPc>>
    /\ UNCHANGED <<bPc, bSync, bUrl, bErr, bTasks, blPc, blIdx, bFetches, connVars, crawlVars,
                   ledgerVars, timeVars>>

\* the aggregator after its loop: done(nil) (203)
AggregatorDone ==
    /\ agPc = "loop"
    /\ agI >= bTasks
    /\ doneCalls' = Append(doneCalls, DoneCall("aggregator", ""))
    /\ agErr' = ""
    /\ agPc' = "callback"
    /\ UNCHANGED <<bPc, bSync, bUrl, bErr, bTasks, errs, blPc, blIdx, bFetches, agI, connVars,
                   crawlVars, ledgerVars, timeVars>>

\* done(err) called by the aggregator returns; with ArchiveUrlSync the caller
\* receives err and returns it (218-219)
AggregatorCallbackReturn ==
    /\ agPc = "callback"
    /\ bSync => DoneReceiverReady
    /\ agPc' = "done"
    /\ IF bSync
       THEN bPc' = "SyncReturned" /\ bErr' = agErr
       ELSE UNCHANGED <<bPc, bErr>>
    /\ UNCHANGED <<bSync, bUrl, bTasks, errs, blPc, blIdx, bFetches, agI, agErr, doneCalls, connVars,
                   crawlVars, ledgerVars, timeVars>>

InitBatch ==
    /\ bPc = "idle"
    /\ bSync = FALSE
    /\ bUrl = << >>
    /\ bErr = ""
    /\ bTasks = 0
    /\ errs = << >>
    /\ blPc = "off"
    /\ blIdx = 0
    /\ bFetches = << >>
    /\ agPc = "off"
    /\ agI = 0
    /\ agErr = ""
    /\ doneCalls = << >>

(***************************************************************************)
(* The metadata ledger (metadata.go).  A string is a sequence; "" is << >>.*)
(***************************************************************************)
\* the last instant of the clock, in half seconds
MaxTime == 2
\* rows the metadata table may hold
MaxRows == 2

Writers  == {"w1", "w2"}
KeyIds   == {"k1"}
Subjects == {"s1", "s2"}
Zones    == {0, 3600}

\* Meta map[string]interface{}: the nil map, the empty map, a map with a title
Meta(isNil, title) == [nil |-> isNil, title |-> title]
MetaNil   == Meta(TRUE, "")
MetaEmpty == Meta(FALSE, "")
Metas     == {MetaNil, MetaEmpty, Meta(FALSE, "a")}

\* json.Marshal(m.Meta)
MarshalMeta(meta) == IF meta.nil THEN <<"null">> ELSE <<"{", meta.title, "}">>

\* json.Unmarshal(metaBytes, &meta) into a nil map; SQL NULL leaves it nil
UnmarshalMeta(bytes) ==
    IF bytes = << >> \/ bytes = <<"null">> THEN MetaNil ELSE Meta(FALSE, bytes[2])

\* time.Time: the instant in seconds and the offset of its location
Time(sec, off) == [sec |-> sec, off |-> off]
ZeroTime == Time(0, 0)

\* time.Now(), local time
Now == Time(now, zone)

\* t.Round(time.Second), on an instant in half seconds: halfway values round up
Round(t) == Time((t.sec + 1) \div 2, t.off)

\* t.In(time.UTC)
InUTC(t) == Time(t.sec, 0)

\* Time.MarshalJSON: RFC 3339, the wall clock of the location and its offset
MarshalTime(t) == <<t.sec + t.off, t.off>>

Metadata(hash, ts, keyId, subject, prev, meta) ==
    [Hash |-> hash, Timestamp |-> ts, KeyId |-> keyId, Subject |-> subject,
     Prev |-> prev, Meta |-> meta]

NoRecord == Metadata(<< >>, ZeroTime, "", "", << >>, MetaNil)

\* HashableBytes (metadata.go:83-98)
HashableBytes(m) ==
    <<MarshalTime(m.Timestamp), m.KeyId, m.Subject, m.Prev, MarshalMeta(m.Meta)>>

\* sha256 and multihash.EncodeName(.., "sha2-256"), hex encoded: the tag 1220
\* and the digest, a digest being written as the bytes it is the digest of
Sha256Multihash(data) == <<"1220", data>>

\* calcHash (metadata.go:100-116): the value assigned to m.Hash
calcHash(m) == Sha256Multihash(HashableBytes(m))

Row(hash, ts, keyId, subject, prev, metaBytes) ==
    [hash |-> hash, time_stamp |-> ts, key_id |-> keyId, subject |-> subject,
     prev |-> prev, meta |-> metaBytes]

\* UnmarshalSQL (metadata.go:178-209) of a row that scans
UnmarshalSQL(row) ==
    Metadata(row.hash, Time(row.time_stamp, 0), row.key_id, row.subject, row.prev,
             UnmarshalMeta(row.meta))

RowsOf(table, keyId, subject) ==
    {i \in 1..Len(table) : table[i].key_id = keyId /\ table[i].subject = subject}

\* mutant of FirstRows: order by time_stamp asc
FirstRowsAsc(table, keyId, subject) ==
    {i \in RowsOf(table, keyId, subject) :
        \A j \in RowsOf(table, keyId, subject) : table[i].time_stamp <= table[j].time_stamp}

\* the rows "... where key_id = $1 and subject = $2 order by time_stamp desc"
\* may put first: any row of the pair with the greatest time_stamp
FirstRows(table, keyId, subject) ==
    {i \in RowsOf(table, keyId, subject) :
        \A j \in RowsOf(table, keyId, subject) : table[i].time_stamp >= table[j].time_stamp}

\* LatestMetadata (metadata.go:75-80): the possible results <<m, err>>
LatestMetadata(table, keyId, subject) ==
    {<<NoRecord, "storage">>} \cup
    (IF RowsOf(table, keyId, subject) = {}
     THEN {<<NoRecord, "ErrNotFound">>}
     ELSE {<<UnmarshalSQL(table[i]), "">> : i \in FirstRows(table, keyId, subject)})

\* NextMetadata (metadata.go:51-71) on the result <<m, err>> of LatestMetadata
NextFrom(m, err, keyId, subject) ==
    IF err = "ErrNotFound" THEN <<Metadata(<< >>, ZeroTime, keyId, subject, << >>, MetaEmpty), "">>
    ELSE IF err # "" THEN <<NoRecord, err>>
    ELSE <<Metadata(<< >>, ZeroTime, m.KeyId, m.Subject, m.Hash, m.Meta), "">>

\* a call of NextMetadata by writer w for a subject of subjects; whether the
\* query fails is an input
NextMetadataOn(w, subjects) ==
    /\ wPc[w] = "idle"
    /\ \E keyId \in KeyIds, subject \in subjects :
       \E latest \in LatestMetadata(rows, keyId, subject) :
         LET res == NextFrom(latest[1], latest[2], keyId, subject) IN
         /\ wArgs' = [wArgs EXCEPT ![w] = <<keyId, subject>>]
         /\ wRec' = [wRec EXCEPT ![w] = res[1]]
         /\ wErr' = [wErr EXCEPT ![w] = res[2]]
         /\ wPc' = [wPc EXCEPT ![w] = IF res[2] = "" THEN "built" ELSE "idle"]
    /\ UNCHANGED <<rows, now, zone, titleJobs, titles, connVars, crawlVars, timeVars, batchVars>>

NextMetadata(w) == NextMetadataOn(w, Subjects)

\* what the caller makes of the record it got before it writes it: new meta,
\* and whatever it left in Hash
Filled(m, meta, hash) == [m EXCEPT !.Meta = meta, !.Hash = hash]

\* the record Write stamps and hashes (metadata.go:122-125)
Stamped(m) ==
    LET t == [m EXCEPT !.Timestamp = Round(Now)] IN [t EXCEPT !.Hash = calcHash(t)]

\* mutant of InsertRow: prev is set to the hash of the head at the insert
InsertRowRebased(m) ==
    LET heads == FirstRows(rows, m.KeyId, m.Subject) IN
    Row(m.Hash, Round(InUTC(m.Timestamp)).sec, m.KeyId, m.Subject,
        IF heads = {} THEN << >> ELSE rows[CHOOSE i \in heads : TRUE].hash, MarshalMeta(m.Meta))

\* the row of the insert statement (metadata.go:126-131)
InsertRow(m) ==
    Row(m.Hash, Round(InUTC(m.Timestamp)).sec, m.KeyId, m.Subject, m.Prev, MarshalMeta(m.Meta))

\* whether Write starts the title goroutine (metadata.go:133)
StartsTitle(m, err) == ~m.Meta.nil /\ m.Meta.title # ""

\* Metadata.Write (metadata.go:119-151) on the record the writer holds, filled
\* in; the writer lets go of the record when Write returns.  The table is keyed by hash: an insert of a hash it holds fails, and any
\* insert may fail.
WriteUpTo(w, metas, maxRows) ==
    /\ wPc[w] = "built"
    /\ Len(rows) < maxRows
    /\ \E meta \in metas, hash \in {<< >>, wRec[w].Prev}, execOk \in BOOLEAN :
         LET m == Stamped(Filled(wRec[w], meta, hash))
             err == IF execOk /\ \A i \in 1..Len(rows) : rows[i].hash # m.Hash
                    THEN "" ELSE "storage" IN
         /\ rows' = IF err = "" THEN Append(rows, InsertRow(m)) ELSE rows
         /\ wErr' = [wErr EXCEPT ![w] = err]
         /\ titleJobs' = IF StartsTitle(m, err)
                         THEN titleJobs \cup {[subject |-> m.Subject, title |-> m.Meta.title]}
                         ELSE titleJobs
    /\ wPc' = [wPc EXCEPT ![w] = "idle"]
    /\ wRec' = [wRec EXCEPT ![w] = NoRecord]
    /\ wArgs' = [wArgs EXCEPT ![w] = <<"", "">>]
    /\ UNCHANGED <<now, zone, titles, connVars, crawlVars, timeVars, batchVars>>

\* Write while the table holds fewer than MaxRows rows
WriteOn(w, metas) == WriteUpTo(w, metas, MaxRows)

Write(w) == WriteOn(w, Metas)

\* the title goroutine (metadata.go:134-147)
TitleUpdate ==
    /\ titleJobs # {}
    /\ \E job \in titleJobs, readOk \in BOOLEAN, updateOk \in BOOLEAN :
         /\ titleJobs' = titleJobs \ {job}
         /\ titles' = IF readOk /\ updateOk
                      THEN [titles EXCEPT ![job.subject] = job.title] ELSE titles
    /\ UNCHANGED <<rows, now, zone, wVars, connVars, crawlVars, timeVars, batchVars>>

\* half a second passes
Tick ==
    /\ now < MaxTime
    /\ now' = now + 1
    /\ UNCHANGED <<rows, zone, wVars, titleJobs, titles, connVars, crawlVars, timeVars, batchVars>>

InitLedger ==
    /\ rows = << >>
    /\ now = 0
    /\ wPc = [w \in Writers |-> "idle"]
    /\ wArgs = [w \in Writers |-> <<"", "">>]
    /\ wRec = [w \in Writers |-> NoRecord]
    /\ wErr = [w \in Writers |-> ""]
    /\ titleJobs = {}
    /\ titles = [s \in Subjects |-> ""]

InitConn ==
    /\ send = << >>
    /\ sendClosed = FALSE
    /\ connClosed = FALSE
    /\ registered = FALSE
    /\ unregPending = FALSE
    /\ panicked = FALSE
    /\ pending = [p \in Producers |-> None]
    /\ rpPc = "init"
    /\ rpMsg = NoMsg
    /\ rpIdx = 0
    /\ reads = 0
    /\ wpPc = "init"
    /\ pinged = FALSE
    /\ closeFrames = 0
    /\ enqueued = << >>
    /\ written = << >>
    /\ execLog = << >>
    /\ malformed = 0
    /\ rpBase = 0
    /\ dropped = << >>
    /\ connReaders = {}
    /\ connWriters = {}

Init == InitConn /\ InitCrawl /\ InitBatch /\ InitLedger /\ InitTime /\ zone = 0

\* the tasks of the connection other than the producers
Transport ==
    \/ serveWs
    \/ readPumpError
    \/ readPumpDefer
    \/ HubUnregister
    \/ writePumpMessage
    \/ writePumpClosed
    \/ writePumpPing

Crawl ==
    \/ ArchiveUrlSpawn
    \/ LinkLoading
    \/ LinkFetch
    \/ LinkSuccess

\* inputs of the specification that runs the dispatch next to a crawl
MixMsgs == {
            [Type |-> TypeAReq, RequestId |-> "r1", SilentError |-> TRUE, ok |-> TRUE]}
MixUrls == {UrlExample}

\* the connection with every producer: dispatch and crawl
Next ==
    \/ Transport
    \/ /\ Len(enqueued) < MaxEnqueued
       /\ \/ readPumpOn(MixMsgs, MaxReads)
          \/ HandleRequestAction
          \/ \E p \in Producers : SendResponse(p)
          \/ ArchiveUrlOn(MixUrls)
          \/ ArchiveUrlGet
          \/ Crawl

Spec == Init /\ [][Next]_vars

\* the dispatch alone, over every inbound message
DispatchNext ==
    \/ Transport
    \/ readPump
    \/ HandleRequestAction
    \/ SendResponse("readPump")

DispatchSpec == Init /\ [][DispatchNext]_vars

\* the crawl alone, over every url
CrawlNext ==
    \/ Transport
    \/ ArchiveUrl
    \/ ArchiveUrlGet
    \/ Crawl
    \/ \E p \in {"ArchiveUrl", "links"} : SendResponse(p)

CrawlSpec == Init /\ [][CrawlNext]_vars

(***************************************************************************)
(* Properties of the dispatch                                              *)
(***************************************************************************)
\* s ends in the literal "REQUEST"
EndsInRequest(s) == \E k \in 0..Len(s) : s = SubSeq(s, 1, k) \o REQUEST

\* the responses readPump enqueued for the message it is working on, in order
Answers == SelectSeq(SubSeq(enqueued, rpBase + 1, Len(enqueued)),
                     LAMBDA item : item.by = "readPump")

\* HandleAction has returned for the message read last
Handled == rpPc = "read" /\ pending["readPump"] = None /\ reads > 0

\* C1: reading a message that parses as an envelope and whose Type does not end
\* in "REQUEST" executes no handler and leaves the outbound queue as it was;
\* HandleAction returns in that step with nothing left to send.
C1_NonRequestIgnored ==
    [][(reads' = reads + 1 /\ rpMsg'.ok /\ ~EndsInRequest(rpMsg'.Type))
        => /\ execLog' = execLog
           /\ send' = send
           /\ enqueued' = enqueued
           /\ pending' = pending
           /\ rpPc' = "read"]_vars

\* a message whose Type a registry entry claims, but which lacks the suffix,
\* has been handled
C1_Witness ==
    /\ Handled
    /\ rpMsg.ok
    /\ rpMsg.Type = TypeReqs
    /\ Matching(1, rpMsg.Type) # {}
    /\ execLog = << >>
    /\ enqueued = << >>

ParseErrors(q) == Len(SelectSeq(q, LAMBDA item : item.data.Type = "PARSE_ERROR"))

\* C2: a message that fails to parse gets exactly one response, of type
\* PARSE_ERROR (one per such message, enqueued or being enqueued), executes no
\* handler, and leaves readPump at its read loop with the connection as it was.
C2_ParseErrorOnce ==
    [][/\ ParseErrors(enqueued') + (IF pending'["readPump"].Type = "PARSE_ERROR" THEN 1 ELSE 0)
            = malformed'
       /\ (reads' = reads + 1 /\ ~rpMsg'.ok)
            => /\ pending'["readPump"].Type = "PARSE_ERROR"
               /\ execLog' = execLog
               /\ rpPc' = "read"
               /\ connClosed' = connClosed
       /\ (~rpMsg.ok /\ reads > 0 /\ pending["readPump"] # None /\ pending'["readPump"] = None)
            => /\ Len(enqueued') = Len(enqueued) + 1
               /\ enqueued'[Len(enqueued')].data.Type = "PARSE_ERROR"
               /\ rpPc' = "read"
               /\ connClosed' = connClosed]_vars

\* a malformed message was answered and the next message has been read
C2_Witness ==
    /\ malformed = 1
    /\ reads = 2
    /\ rpMsg.ok
    /\ ParseErrors(enqueued) = 1
    /\ ~connClosed

\* C3: once an envelope whose Type ends in "REQUEST" is handled, the responses
\* enqueued for it are one per registry entry of that Type, in registry order,
\* each with the envelope's SilentError.
C3_EveryMatchResponds ==
    (Handled /\ rpMsg.ok /\ EndsInRequest(rpMsg.Type))
        => /\ Len(Answers) = Cardinality(Matching(1, rpMsg.Type))
           /\ \A i \in 1..Len(Answers) :
                /\ Answers[i].data.SilentError = rpMsg.SilentError
                /\ Answers[i].data.from \in Matching(1, rpMsg.Type)
                /\ \A j \in 1..(i - 1) : Answers[j].data.from < Answers[i].data.from

(***************************************************************************)
(* Properties of the connection's two tasks                                *)
(***************************************************************************)
\* C4: the payloads written to the connection are, in order, the first of the
\* responses enqueued: nothing reordered, nothing written twice.
C4_Fifo == written = SubSeq(enqueued, 1, Len(written))

\* responses of the dispatch and of the crawl have been written, and a ping
C4_Witness ==
    /\ Len(written) >= 3
    /\ pinged
    /\ \E i, j \in 1..Len(written) :
         /\ i < j
         /\ written[i].by # "readPump"
         /\ written[j].by = "readPump"

\* C5: only readPump reads the connection and only writePump writes it.
C5_OneReaderOneWriter ==
    /\ connReaders \subseteq {"readPump"}
    /\ connWriters \subseteq {"writePump"}

\* both tasks have used the connection after a handler and the link goroutine
\* delivered responses
C5_Witness ==
    /\ connReaders = {"readPump"}
    /\ connWriters = {"writePump"}
    /\ \E i, j \in 1..Len(enqueued) : enqueued[i].by = "readPump" /\ enqueued[j].by = "links"

(***************************************************************************)
(* Properties of the ledger                                                *)
(***************************************************************************)
\* writer w returned from NextMetadata in this step
Returned(w) ==
    wPc[w] = "idle" /\ <<wPc[w], wArgs[w], wRec[w], wErr[w]>>' # <<wPc[w], wArgs[w], wRec[w], wErr[w]>>

\* C6: NextMetadata(keyId, subject) returns either a storage error and no
\* record, or, when the pair has no row, a record of the pair with empty prev and
\* the empty payload, or, when it has rows, a record whose prev is the hash of a
\* row H of the pair with the greatest time_stamp and whose keyId, subject and
\* meta are H's.
C6_NextRecord ==
    [][\A w \in Writers : Returned(w) =>
        LET keyId == wArgs'[w][1]
            subject == wArgs'[w][2]
            pair == {i \in 1..Len(rows) : rows[i].key_id = keyId /\ rows[i].subject = subject}
            m == wRec'[w]
        IN  IF wErr'[w] # ""
            THEN wErr'[w] = "storage" /\ m = NoRecord /\ wPc'[w] = "idle"
            ELSE /\ wPc'[w] = "built"
                 /\ m.KeyId = keyId
                 /\ m.Subject = subject
                 /\ IF pair = {}
                    THEN m.Prev = << >> /\ m.Meta = MetaEmpty
                    ELSE \E h \in pair :
                           /\ \A j \in pair : rows[h].time_stamp >= rows[j].time_stamp
                           /\ m.Prev = rows[h].hash
                           /\ m.KeyId = rows[h].key_id
                           /\ m.Subject = rows[h].subject
                           /\ m.Meta = UnmarshalMeta(rows[h].meta)]_vars

\* a writer holds the successor of the younger of two rows of a pair
C6_Witness ==
    \E w \in Writers :
        /\ wPc[w] = "built"
        /\ Len(rows) = 2
        /\ rows[1].subject = rows[2].subject
        /\ rows[1].time_stamp < rows[2].time_stamp
        /\ wRec[w].Subject = rows[2].subject
        /\ wRec[w].Prev = rows[2].hash

\* the Hasher's output over the five fields as the row stores them
HashOfRow(row) ==
    Sha256Multihash(<<MarshalTime(Time(row.time_stamp, 0)), row.key_id, row.subject, row.prev,
                      row.meta>>)

\* C7: every row's hash is the Hasher's output over the timestamp, keyId,
\* subject, prev and meta of that row, and two rows have the same hash exactly
\* when they agree on the five.
C7_HashOfStoredFields ==
    /\ \A i \in 1..Len(rows) : rows[i].hash = HashOfRow(rows[i])
    /\ \A i, j \in 1..Len(rows) :
         (rows[i].hash = rows[j].hash)
            <=> (<<rows[i].time_stamp, rows[i].key_id, rows[i].subject, rows[i].prev, rows[i].meta>>
                 = <<rows[j].time_stamp, rows[j].key_id, rows[j].subject, rows[j].prev, rows[j].meta>>)

(***************************************************************************)
(* Properties of the crawl                                                 *)
(***************************************************************************)
\* the responses the crawl has enqueued, in order
CrawlSent == SelectSeq(enqueued, LAMBDA item : item.by \in {"ArchiveUrl", "links"})

\* C8: a crawl of a url that no subprimer matches is Rejected: its one response
\* is URL_ARCHIVE_ERROR with the request's id, no audit row is inserted, the
\* content store is not called and the link goroutine is not started.
C8_RejectedBeforeSideEffects ==
    (arPc # "idle" /\ \A pat \in Subprimers : ~ILike(arUrl, pat))
        => /\ arPc = "Rejected"
           /\ auditRows = 0
           /\ storeOps = << >>
           /\ lkPc = "off"
           /\ IF pending["ArchiveUrl"] # None
              THEN CrawlSent = << >> /\ pending["ArchiveUrl"] = ArchiveError(arReqId)
              ELSE /\ Len(CrawlSent) = 1
                   /\ CrawlSent[1].data.Type = "URL_ARCHIVE_ERROR"
                   /\ CrawlSent[1].data.RequestId = arReqId

\* the url outside the allow-list was rejected and its response written
C8_Witness ==
    /\ arPc = "Rejected"
    /\ arUrl = UrlEvil
    /\ Len(written) = 1
    /\ written[1].data.Type = "URL_ARCHIVE_ERROR"

\* the crawl has sent, or is sending, a response of this type
Emitted(type) ==
    \/ \E i \in 1..Len(CrawlSent) : CrawlSent[i].data.Type = type
    \/ pending["ArchiveUrl"].Type = type

PrimaryFetch(ok) == \E i \in 1..Len(storeOps) : storeOps[i] = StoreOp("get", 0, ok)

\* C9: URL_ARCHIVE_SUCCESS is emitted only after the primary fetch succeeded;
\* a crawl whose primary fetch failed has emitted URL_ARCHIVE_ERROR and no
\* URL_ARCHIVE_SUCCESS.
C9_SuccessAfterPrimaryFetch ==
    /\ Emitted("URL_ARCHIVE_SUCCESS") => PrimaryFetch(TRUE)
    /\ PrimaryFetch(FALSE)
         => arPc = "Failed" /\ Emitted("URL_ARCHIVE_ERROR") /\ ~Emitted("URL_ARCHIVE_SUCCESS")

\* the types of the events enqueued about link i, in order
LinkEvents(i) ==
    LET about == SelectSeq(enqueued, LAMBDA item : item.data.link = i)
    IN  [k \in 1..Len(about) |-> about[k].data.Type]

\* the link goroutine is past link i
Processed(i) == lkIdx > i /\ (pending["links"] = None \/ pending["links"].link # i)

Fetched(i, ok) == \E k \in 1..Len(storeOps) : storeOps[k] = StoreOp("get", i, ok)

\* C10: a link the goroutine is past has exactly two events, URL_SET_LOADING
\* and then its terminal event: URL_SET_SUCCESS when its fetch succeeded,
\* URL_SET_ERROR when it failed.
C10_OneTerminalEvent ==
    \A i \in 1..nLinks : Processed(i) =>
        LinkEvents(i) = <<"URL_SET_LOADING",
                          IF Fetched(i, TRUE) THEN "URL_SET_SUCCESS" ELSE "URL_SET_ERROR">>

\* the types of the responses the crawl has enqueued, in order
CrawlTypes == [k \in 1..Len(CrawlSent) |-> CrawlSent[k].data.Type]

\* C11: a crawl that returned after a primary fetch with zero links has
\* enqueued exactly two responses, URL_ARCHIVE_SUCCESS with the request's id
\* and then the link list; no URL_SET_LOADING, URL_SET_ERROR or URL_SET_SUCCESS
\* event is enqueued or about to be, and no link was fetched.
C11_ZeroLinkCrawl ==
    (arPc = "Returned" /\ nLinks = 0)
        => /\ CrawlTypes = <<"URL_ARCHIVE_SUCCESS", "LINK_ARRAY">>
           /\ CrawlSent[1].data.RequestId = arReqId
           /\ pending["ArchiveUrl"] = None
           /\ pending["links"] = None
           /\ \A i \in 1..Len(enqueued) : enqueued[i].data.link = 0
           /\ \A k \in 1..Len(storeOps) : storeOps[k].link = 0
           /\ lkPc \in {"loop", "Completed"}

\* a crawl with zero links is Completed and its two responses are written
C11_Witness ==
    /\ arPc = "Returned"
    /\ nLinks = 0
    /\ lkPc = "Completed"
    /\ Len(written) = 2
    /\ PrimaryFetch(TRUE)

(***************************************************************************)
(* The liveness timeout                                                    *)
(***************************************************************************)
\* an envelope that is not a request: handled without a response
QuietMsgs == {[Type |-> TypeLower, RequestId |-> "r1", SilentError |-> FALSE, ok |-> TRUE]}

\* the peer's pong answers a ping
PeerPong == pingAt # Never /\ readPumpPong

\* the connection and its deadlines, with a peer that sends messages that need
\* no response and answers pings, or does not
KeepaliveNext ==
    \/ serveWs
    \/ readPumpOn(QuietMsgs, MaxReads)
    \/ PeerPong
    \/ readPumpTimeout
    \/ readPumpError
    \/ readPumpDefer
    \/ HubUnregister
    \/ writePumpTick
    \/ writePumpClosed
    \/ Elapse

\* readPump, once out of its loop, runs its deferred function
KeepaliveSpec == Init /\ [][KeepaliveNext]_vars /\ WF_vars(readPumpDefer)

\* the connection exists
Served == rpPc \notin {"init", "no client"}

\* C12: the ping interval is less than the liveness timeout; a connection
\* that has received neither a data message nor a pong for longer than pongWait
\* is closed; a read that fails at the deadline closes the connection, and
\* readPump then unregisters from the hub and terminates; and a read fails
\* at the deadline only when a ping has been without a pong for at least
\* pongWait - pingPeriod.
C12_LivenessTimeout ==
    /\ [](pingPeriod < pongWait)
    /\ []((Served /\ clock - lastHeard > pongWait) => connClosed)
    /\ []((timedOutAt # Never) => (connClosed /\ rpPc \in {"closing", "done"}))
    /\ (timedOutAt # Never) ~> (rpPc = "done" /\ connClosed /\ (unregPending \/ ~registered))
    /\ []((timedOutAt # Never)
            => (pingAt # Never /\ timedOutAt - pingAt >= pongWait - pingPeriod))

\* the peer answered the first ping and then went silent: the read failed at
\* the second deadline, and readPump has unregistered and terminated
C12_Witness ==
    /\ timedOutAt > pongWait
    /\ pinged
    /\ rpPc = "done"
    /\ ~registered

(***************************************************************************)
(* The outbound queue                                                      *)
(***************************************************************************)
\* C16: c.send never holds more than SendCap elements.  A response that
\* SendResponse is delivering stays with its producer until the step that
\* appends it to the queue, which needs room in the queue; the queue only
\* changes by an append at its end or by the removal of its head; and only
\* responses that json.Marshal rejects are given up.
C16_BoundedBlockingQueue ==
    /\ [](Len(send) <= SendCap)
    /\ [](\A i \in 1..Len(dropped) : ~dropped[i].marshals)
    /\ [][/\ \A p \in Producers :
              pending[p] # None =>
                \/ pending'[p] = pending[p]
                \/ /\ pending'[p] = None
                   /\ Len(send) < SendCap
                   /\ send' = Append(send, [data |-> pending[p], n |-> Len(enqueued) + 1, by |-> p])
                   /\ enqueued' = Append(enqueued, send'[Len(send')])
          /\ \/ send' = send
             \/ send # << >> /\ send' = Tail(send)
             \/ \E p \in Producers : send' = Append(send, [data |-> pending[p],
                                                           n |-> Len(enqueued) + 1, by |-> p])
          /\ Len(enqueued') >= Len(enqueued)
          /\ SubSeq(enqueued', 1, Len(enqueued)) = enqueued]_vars

\* the queue is full while a handler's response and a link event wait for
\* room, after writePump has written a payload
C16_Witness ==
    /\ Len(send) = SendCap
    /\ pending["readPump"] # None
    /\ pending["links"] # None
    /\ Len(written) >= 1
    /\ wpPc = "run"

(***************************************************************************)
(* The link goroutine                                                      *)
(***************************************************************************)
\* the crawl where the link goroutine runs and the queue is served
CrawlFairSpec ==
    /\ CrawlSpec
    /\ WF_vars(LinkLoading)
    /\ WF_vars(LinkFetch)
    /\ WF_vars(LinkSuccess)
    /\ WF_vars(SendResponse("links"))
    /\ WF_vars(writePumpMessage)

\* the links the queued and pending link events are about, in order
EventLinks ==
    LET about == SelectSeq(enqueued, LAMBDA item : item.data.link # 0)
        queued == [k \in 1..Len(about) |-> about[k].data.link]
    IN  IF pending["links"] # None THEN Append(queued, pending["links"].link) ELSE queued

\* the links fetched, in order
FetchedLinks ==
    LET gets == SelectSeq(storeOps, LAMBDA o : o.link # 0)
    IN  [k \in 1..Len(gets) |-> gets[k].link]

\* the outbound queue is no longer drained
NotDrained == wpPc = "done" \/ sendClosed \/ panicked

ReadOnClosed == connClosed /\ readPumpError

\* the dispatch where every goroutine that can take a step takes one: the
\* tasks of the connection run, the hub serves its channel, and a read on a
\* closed connection returns
DispatchFairSpec ==
    /\ DispatchSpec
    /\ WF_vars(ReadOnClosed)
    /\ WF_vars(readPumpDefer)
    /\ WF_vars(HubUnregister)
    /\ WF_vars(HandleRequestAction)
    /\ WF_vars(SendResponse("readPump"))
    /\ WF_vars(writePumpMessage)
    /\ WF_vars(writePumpClosed)

\* C14: when writePump has terminated the connection is closed, and
\* readPump then eventually terminates, having sent itself on hub.unregister.
C14_WriterFailureStopsReader ==
    /\ [](wpPc = "done" => connClosed)
    /\ (wpPc = "done") ~> (rpPc = "done" /\ (unregPending \/ ~registered))

(***************************************************************************)
(* The crawl with a completion callback                                    *)
(***************************************************************************)
BatchNext ==
    \/ ArchiveUrlBatch
    \/ ArchiveUrlBatchGet
    \/ CallbackReturn
    \/ BatchLinkFetch
    \/ AggregatorRecv
    \/ AggregatorDone
    \/ AggregatorCallbackReturn

\* every goroutine of the call that can take a step takes one
BatchSpec == Init /\ [][BatchNext]_vars /\ WF_vars(BatchNext)

\* the primary fetch of the call succeeded
BatchFetched == agPc # "off"

\* C13: the callback is invoked at most once, and exactly once when the call
\* is over.  A call that fails before or at the primary fetch invokes it
\* with the error it returns; after a primary fetch that succeeded it is
\* invoked by the aggregator, with no error, when exactly len(links)
\* completions have been drained, whichever link fetches failed.
C13_CallbackOnce ==
    /\ Len(doneCalls) <= 1
    /\ bPc \in {"callback", "Returned", "SyncReturned"} /\ ~BatchFetched
         => doneCalls = <<[by |-> "caller", err |-> bErr, drained |-> 0]>> /\ bErr # ""
    /\ BatchFetched
         => /\ agPc \in {"callback", "done"} <=> Len(doneCalls) = 1
            /\ doneCalls # << >>
                 => doneCalls[1] = [by |-> "aggregator", err |-> "", drained |-> bTasks]
            /\ agPc = "done" => (errs = << >> /\ Len(bFetches) = bTasks)

\* a direct call over two links, one of whose fetches failed, is over
C13_Witness ==
    /\ ~bSync
    /\ bPc = "Returned"
    /\ agPc = "done"
    /\ bTasks = 2
    /\ \E k \in 1..Len(bFetches) : ~bFetches[k]
    /\ Len(doneCalls) = 1

\* C18: every call of ArchiveUrlSync returns.
C18_SyncReturns == (bSync /\ bPc # "idle") ~> (bPc = "SyncReturned")

\* the ledger alone: writers that extend chains, in any time zone
LedgerInit == InitConn /\ InitCrawl /\ InitBatch /\ InitLedger /\ InitTime /\ zone \in Zones

\* the payloads written where the title goroutine is left out
PlainMetas == {MetaNil, MetaEmpty}

LedgerNext ==
    \/ \E w \in Writers : NextMetadata(w)
    \/ \E w \in Writers : WriteOn(w, PlainMetas)
    \/ Tick

LedgerSpec == LedgerInit /\ [][LedgerNext]_vars

(***************************************************************************)
(* Chains                                                                  *)
(***************************************************************************)
\* the subject whose chain the writers extend
ChainSubjects == {"s1"}

\* two writers on one chain, in UTC; the table has room for a head and two
\* successors
ForkNext ==
    \/ \E w \in Writers : NextMetadataOn(w, ChainSubjects)
    \/ \E w \in Writers : WriteUpTo(w, PlainMetas, MaxRows + 1)
    \/ Tick

ForkSpec == Init /\ [][ForkNext]_vars

\* writer w's Write returned in this step
Wrote(w) == wPc[w] = "built" /\ wPc'[w] = "idle"

\* rows i and j are distinct records of one chain with the same prev
Fork(i, j) ==
    /\ i # j
    /\ rows[i].key_id = rows[j].key_id
    /\ rows[i].subject = rows[j].subject
    /\ rows[i].prev = rows[j].prev
    /\ rows[i].hash # rows[j].hash

\* C15: Write appends the record with the prev its writer got from
\* NextMetadata, whether or not the row of that hash is still the head of the
\* chain, and never touches the rows already there: nothing compares the head
\* at the insert with the head that was read.
C15_WriteKeepsPrevRead ==
    [][\A w \in Writers :
         Wrote(w) =>
            \/ wErr'[w] # "" /\ rows' = rows
            \/ /\ wErr'[w] = ""
               /\ Len(rows') = Len(rows) + 1
               /\ SubSeq(rows', 1, Len(rows)) = rows
               /\ rows'[Len(rows')].prev = wRec[w].Prev
               /\ rows'[Len(rows')].key_id = wRec[w].KeyId
               /\ rows'[Len(rows')].subject = wRec[w].Subject]_vars

\* the chain is forked at a head that both writers read: the second and the
\* third row are distinct records whose prev is the hash of the first
C15_Witness ==
    /\ Len(rows) = 3
    /\ rows[1].prev = << >>
    /\ rows[2].prev = rows[1].hash
    /\ Fork(2, 3)
    /\ rows[2].time_stamp > rows[1].time_stamp

\* one writer, each NextMetadata after the previous Write has returned
SeqNext ==
    \/ NextMetadataOn("w1", ChainSubjects)
    \/ WriteUpTo("w1", PlainMetas, MaxRows + 1)
    \/ Tick

SeqSpec == LedgerInit /\ [][SeqNext]_vars

\* the rows of the pair, in insertion order
ChainRows(keyId, subject) ==
    SelectSeq(rows, LAMBDA r : r.key_id = keyId /\ r.subject = subject)

\* C19: with one writer at a time the rows of a pair form one linear chain:
\* the first has empty prev, each later one has the hash of the row written
\* just before it as prev, so no two share a prev; and a record NextMetadata
\* returns has the hash of the row written last as prev.
C19_LinearChain ==
    \A keyId \in KeyIds, subject \in ChainSubjects :
        LET chain == ChainRows(keyId, subject) IN
        /\ \A i \in 1..Len(chain) :
              chain[i].prev = IF i = 1 THEN << >> ELSE chain[i - 1].hash
        /\ \A i, j \in 1..Len(chain) : i # j => chain[i].prev # chain[j].prev
        /\ (wPc["w1"] = "built" /\ wArgs["w1"] = <<keyId, subject>> /\ chain # << >>)
              => wRec["w1"].Prev = chain[Len(chain)].hash

(***************************************************************************)
(* The title of the subject                                                *)
(***************************************************************************)
\* one writer whose records may carry a title, and the title goroutines
TitleNext ==
    \/ NextMetadata("w1")
    \/ Write("w1")
    \/ TitleUpdate
    \/ Tick

TitleSpec == Init /\ [][TitleNext]_vars

\* C20: a Write that returns an error adds no row and starts no title
\* goroutine, and a subject's title is the title of a row of that subject.
C20_TitleOnlyAfterAppend ==
    /\ [][\A w \in Writers :
            (Wrote(w) /\ wErr'[w] # "") => (rows' = rows /\ titleJobs' = titleJobs)]_vars
    /\ [](\A subject \in Subjects :
            titles[subject] # ""
              => \E i \in 1..Len(rows) :
                    /\ rows[i].subject = subject
                    /\ UnmarshalMeta(rows[i].meta).title = titles[subject])

====
